---- MODULE Spec2Model ----
(***************************************************************************)
(* Model of the tiup cluster lifecycle code:                               *)
(*   - module.WaitFor (NewWaitFor, Execute, waitForLinux, waitForMacOS)    *)
(*   - manager.Manager (EnableCluster, StartCluster, StopCluster,          *)
(*     RestartCluster)                                                     *)
(* Byte strings are sequences of one-character strings, so that            *)
(* fmt.Sprintf and bytes.Contains are computed, not assumed.               *)
(* Durations are whole seconds.                                            *)
(***************************************************************************)
EXTENDS Integers, Sequences, FiniteSets, TLC

\* ------------------------------------------------------------------------
\* Bounds of the model
\* ------------------------------------------------------------------------
\* largest Sleep a caller passes (0 = unset)
MaxSleep == 2
\* largest Timeout a caller passes (0 = unset)
MaxTimeout == 3
\* largest number of steps the caller's builder callbacks add in StartCluster
MaxFnSteps == 2
\* largest number of instances of a topology
MaxInstances == 2
\* largest number of HistoryRecord calls before history is read
MaxRecords == 3
\* largest count given to GetHistory
MaxCount == 3

\* ------------------------------------------------------------------------
\* Program constants
\* ------------------------------------------------------------------------
\* time.Second, in the model's unit
DefaultSleep == 1
\* time.Second * 60
DefaultTimeout == 60
MacOS == "darwin"
Linux == "linux"

\* ------------------------------------------------------------------------
\* Byte strings
\* ------------------------------------------------------------------------
Digits == <<"0", "1", "2", "3", "4", "5", "6", "7", "8", "9">>

\* the decimal rendering of %d for n >= 0
RECURSIVE Itoa(_)
Itoa(n) == IF n < 10 THEN <<Digits[n + 1]>>
           ELSE Itoa(n \div 10) \o <<Digits[(n % 10) + 1]>>

\* bytes.Contains(s, p)
Contains(s, p) ==
    \E i \in 0..(Len(s) - Len(p)) : SubSeq(s, i + 1, i + Len(p)) = p

\* ------------------------------------------------------------------------
\* Inputs
\* ------------------------------------------------------------------------
Ports == {8, 80}
OSes == {Linux, MacOS, "windows"}
States == {"", "started", "stopped", "absent"}

\* what a detection command may print
Outputs == {
    <<>>,
    <<"*", ":", "8", " ">>,
    <<"*", ":", "8", "0", " ">>,
    <<"L", "I", "S", "T", "E", "N">>,
    <<"-", " ", "0">>,
    <<"7", " ", "0">> }

NoErr == "nil"
ExecErr == "executor error"
StillWaiting == "still waiting for port state to be satisfied"
RetryTimeout == "operation timed out"
ExecResults == {NoErr, ExecErr}

WaitForConfigs ==
    [Port : Ports, Sleep : 0..MaxSleep, State : States,
     Timeout : 0..MaxTimeout, OS : OSes]

ZeroConfig == [Port |-> 0, Sleep |-> 0, State |-> "", Timeout |-> 0, OS |-> ""]

NilRet == [msg |-> "nil", port |-> 0, state |-> "", timeout |-> 0]
NoRet == [msg |-> "none", port |-> 0, state |-> "", timeout |-> 0]
TimedOutMsg == "timed out waiting for port %d to be %s after %s"

\* ------------------------------------------------------------------------
\* State
\* ------------------------------------------------------------------------
VARIABLES
    arg,         \* the WaitForConfig given to NewWaitFor
    w,           \* WaitFor.c
    wpc,         \* "new", "ready", "retry", "sleep", "done"
    elapsed,     \* seconds since Retry began
    lastCmd,     \* command of the latest Executor call (<<>>: none yet)
    lastOut,     \* its stdout
    lastErr,     \* its error
    retryErr,    \* err in Execute after the switch ("none": not there yet)
    ret,         \* what Execute returned (NoRet: not returned)
    everDesired, \* observation: some poll met the desired condition
    mcall,       \* the latest Manager call: arguments, what it did, its result
    ccall,       \* the latest getCleanupFiles call: arguments, c.delFileMap
    hist,        \* the history directory, and the latest HistoryRecord call
    hget         \* the latest GetHistory call: count, rows and error returned

waitVars == <<arg, w, wpc, elapsed, lastCmd, lastOut, lastErr, retryErr, ret,
              everDesired>>
mgrVars == <<mcall>>
cleanVars == <<ccall>>
histVars == <<hist, hget>>
vars == <<arg, w, wpc, elapsed, lastCmd, lastOut, lastErr, retryErr, ret,
          everDesired, mcall, ccall, hist, hget>>

\* ------------------------------------------------------------------------
\* module.WaitFor
\* ------------------------------------------------------------------------
NewWaitForNoSleepDefault(c) ==
    [c EXCEPT !.Timeout = IF c.Timeout = 0 THEN DefaultTimeout ELSE @,
              !.State = IF c.State = "" THEN "started" ELSE @]

NewWaitForNoTimeoutDefault(c) ==
    [c EXCEPT !.Sleep = IF c.Sleep = 0 THEN DefaultSleep ELSE @,
              !.State = IF c.State = "" THEN "started" ELSE @]

NewWaitFor(c) ==
    [c EXCEPT !.Sleep = IF c.Sleep = 0 THEN DefaultSleep ELSE @,
              !.Timeout = IF c.Timeout = 0 THEN DefaultTimeout ELSE @,
              !.State = IF c.State = "" THEN "started" ELSE @]

retryOpt(c) == [Delay |-> c.Sleep, Timeout |-> c.Timeout]

\* fmt.Sprintf(":%d ", w.c.Port)
linuxPattern(c) == <<":">> \o Itoa(c.Port) \o <<" ">>

linuxCmd(c) == <<"ss -ltn">>

linuxCaseStoppedInverted(stdout, pattern) ==
    IF Contains(stdout, pattern) THEN NoErr ELSE StillWaiting

\* case "stopped" of waitForLinux
linuxCaseStopped(stdout, pattern) ==
    IF ~Contains(stdout, pattern) THEN NoErr ELSE StillWaiting

\* case "started" of waitForLinux, which falls through to case "stopped"
linuxCaseStarted(stdout, pattern) ==
    IF Contains(stdout, pattern) THEN NoErr
    ELSE linuxCaseStopped(stdout, pattern)

\* the operation waitForLinux hands to Retry, given the Executor's result
waitForLinuxOp(c, stdout, err) ==
    IF err = NoErr
    THEN CASE c.State = "started" -> linuxCaseStarted(stdout, linuxPattern(c))
           [] c.State = "stopped" -> linuxCaseStopped(stdout, linuxPattern(c))
           [] OTHER -> err
    ELSE err

macCmd(c) ==
    IF c.State = "stopped"
    THEN <<"launchctl list | grep pingcap | grep ", Itoa(c.Port)>>
    ELSE <<"lsof -i:", Itoa(c.Port)>>

macPattern(c) ==
    IF c.State = "stopped" THEN <<"-">>
    ELSE <<"L", "I", "S", "T", "E", "N">>

\* case "stopped" of waitForMacOS
macCaseStopped(stdout, pattern) ==
    IF Contains(stdout, pattern) THEN NoErr ELSE StillWaiting

macCaseStartedAlways(stdout, pattern) == NoErr

\* case "started" of waitForMacOS, which falls through to case "stopped"
macCaseStarted(stdout, pattern) ==
    IF Contains(stdout, pattern) THEN NoErr
    ELSE macCaseStopped(stdout, pattern)

waitForMacOSOpSwallow(c, stdout, err) ==
    IF err = NoErr
    THEN CASE c.State = "started" -> macCaseStarted(stdout, macPattern(c))
           [] c.State = "stopped" -> macCaseStopped(stdout, macPattern(c))
           [] OTHER -> err
    ELSE StillWaiting

\* the operation waitForMacOS hands to Retry, given the Executor's result
waitForMacOSOp(c, stdout, err) ==
    IF err = NoErr
    THEN CASE c.State = "started" -> macCaseStarted(stdout, macPattern(c))
           [] c.State = "stopped" -> macCaseStopped(stdout, macPattern(c))
           [] OTHER -> err
    ELSE err

\* the switch on w.c.OS in Execute: which wait runs, if any
dispatched(c) == c.OS \in {MacOS, Linux}

detectCmd(c) == IF c.OS = MacOS THEN macCmd(c) ELSE linuxCmd(c)

operation(c, stdout, err) ==
    IF c.OS = MacOS THEN waitForMacOSOp(c, stdout, err)
    ELSE waitForLinuxOp(c, stdout, err)

ExecuteReturnRaw(c, err) ==
    IF err # NoErr
    THEN [msg |-> err, port |-> 0, state |-> "", timeout |-> 0]
    ELSE NilRet

\* the end of Execute: the error of the wait is logged, a message is returned
ExecuteReturn(c, err) ==
    IF err # NoErr
    THEN [msg |-> TimedOutMsg, port |-> c.Port, state |-> c.State,
          timeout |-> c.Timeout]
    ELSE NilRet

\* utils.Retry, one attempt: what it does with the operation's result
RetryDecide(res, el, opt) ==
    IF res = NoErr THEN "return nil"
    ELSE IF res # StillWaiting THEN "return err"
    ELSE IF el > opt.Timeout THEN "timeout"
    ELSE "sleep"

\* the desired condition of a poll, as the WaitFor transition rules state it;
\* it feeds the observation variable everDesired and no decision of the code
Desired(c, stdout, err) ==
    /\ err = NoErr
    /\ \/ c.State = "started" /\ c.OS = Linux /\ Contains(stdout, linuxPattern(c))
       \/ c.State = "stopped" /\ c.OS = Linux /\ ~Contains(stdout, linuxPattern(c))
       \/ c.State = "started" /\ c.OS = MacOS
            /\ Contains(stdout, <<"L", "I", "S", "T", "E", "N">>)
       \/ c.State = "stopped" /\ c.OS = MacOS /\ Contains(stdout, <<"-">>)

WaitInit ==
    /\ arg = ZeroConfig
    /\ w = ZeroConfig
    /\ wpc = "new"
    /\ elapsed = 0
    /\ lastCmd = <<>>
    /\ lastOut = <<>>
    /\ lastErr = NoErr
    /\ retryErr = "none"
    /\ ret = NoRet
    /\ everDesired = FALSE

\* NewWaitFor(c)
New ==
    /\ wpc = "new"
    /\ \E c \in WaitForConfigs :
          /\ arg' = c
          /\ w' = NewWaitFor(c)
    /\ wpc' = "ready"
    /\ UNCHANGED <<elapsed, lastCmd, lastOut, lastErr, retryErr, ret, everDesired>>
    /\ UNCHANGED <<mgrVars, cleanVars, histVars>>

\* Execute, OS is darwin or linux: the wait begins
ExecuteWait ==
    /\ wpc = "ready"
    /\ dispatched(w)
    /\ wpc' = "retry"
    /\ elapsed' = 0
    /\ UNCHANGED <<arg, w, lastCmd, lastOut, lastErr, retryErr, ret, everDesired>>
    /\ UNCHANGED <<mgrVars, cleanVars, histVars>>

\* Execute, any other OS: no case of the switch runs, err is still nil
ExecuteNoWait ==
    /\ wpc = "ready"
    /\ ~dispatched(w)
    /\ wpc' = "done"
    /\ retryErr' = NoErr
    /\ ret' = ExecuteReturn(w, NoErr)
    /\ UNCHANGED <<arg, w, elapsed, lastCmd, lastOut, lastErr, everDesired>>
    /\ UNCHANGED <<mgrVars, cleanVars, histVars>>

\* one attempt of Retry: the detection command runs on the Executor, the
\* operation interprets it, Retry returns or goes to sleep
Poll ==
    /\ wpc = "retry"
    /\ \E stdout \in Outputs, err \in ExecResults :
          LET res == operation(w, stdout, err)
              d == RetryDecide(res, elapsed, retryOpt(w))
              e == CASE d = "return nil" -> NoErr
                     [] d = "return err" -> res
                     [] d = "timeout" -> RetryTimeout
                     [] OTHER -> "none"
          IN /\ lastCmd' = detectCmd(w)
             /\ lastOut' = stdout
             /\ lastErr' = err
             /\ everDesired' = (everDesired \/ Desired(w, stdout, err))
             /\ IF d = "sleep"
                THEN /\ wpc' = "sleep"
                     /\ UNCHANGED <<retryErr, ret>>
                ELSE /\ wpc' = "done"
                     /\ retryErr' = e
                     /\ ret' = ExecuteReturn(w, e)
    /\ UNCHANGED <<arg, w, elapsed>>
    /\ UNCHANGED <<mgrVars, cleanVars, histVars>>

\* Retry waits Delay between two attempts
Sleep ==
    /\ wpc = "sleep"
    /\ elapsed' = elapsed + retryOpt(w).Delay
    /\ wpc' = "retry"
    /\ UNCHANGED <<arg, w, lastCmd, lastOut, lastErr, retryErr, ret, everDesired>>
    /\ UNCHANGED <<mgrVars, cleanVars, histVars>>

\* ------------------------------------------------------------------------
\* manager.Manager
\* ------------------------------------------------------------------------
ErrLocked == "cluster is locked by scale-out"
ErrValidate == "meta.ErrValidate"
ErrMeta == "metadata cannot be read"
ErrTLS == "TLSConfig failed"
ErrAbort == "operation aborted by user"
ErrBuilder == "sshTaskBuilder failed"
ErrStep == "step failed"

MetaResults == {NoErr, ErrValidate, ErrMeta}

\* what a caller's builder callback adds: callback x adds the step named x
FnNames == {"f1", "f2"}
FnLists == UNION {[1..n -> FnNames] : n \in 0..MaxFnSteps}

\* the steps sshTaskBuilder has put in the builder it returns
PreSteps == {<<>>, <<"ClusterSSH">>}

Ev(kind, name) == <<kind, name>>

Returned(ev, err) == [events |-> ev, err |-> err]

\* Task.Execute: the steps run in declared order, the first failure ends the
\* run (failAt = 0: no step fails)
TaskExecute(steps, failAt) ==
    [events |->
        [i \in 1..(IF failAt = 0 THEN Len(steps) ELSE failAt) |->
            Ev("run", steps[i])],
     err |-> IF failAt = 0 THEN NoErr ELSE ErrStep]

BuildAndExecuteSwallow(ev, steps, failAt) ==
    LET r == TaskExecute(steps, failAt)
    IN Returned(ev \o <<Ev("call", "Build"), Ev("call", "Execute")>> \o r.events,
                NoErr)

\* t := b.Build(); t.Execute(...); its error is returned, nil otherwise
BuildAndExecute(ev, steps, failAt) ==
    LET r == TaskExecute(steps, failAt)
    IN Returned(ev \o <<Ev("call", "Build"), Ev("call", "Execute")>> \o r.events,
                r.err)

CheckLockedSkipped(locked) == NoErr

\* m.specManager.ScaleOutLockedErr(name)
CheckLocked(locked) == IF locked THEN ErrLocked ELSE NoErr

metaFatalStrict(merr) == merr # NoErr

\* err != nil && !errors.Is(perrs.Cause(err), meta.ErrValidate)
metaFatal(merr) == merr # NoErr /\ merr # ErrValidate

confirmEventsNever(skipConfirm) == <<>>

\* if !skipConfirm { tui.PromptForConfirmOrAbortError(...) }
confirmEvents(skipConfirm) ==
    IF ~skipConfirm THEN <<Ev("call", "PromptForConfirmOrAbortError")>>
    ELSE <<>>

\* the prompt returned an error
declined(skipConfirm, answer) == ~skipConfirm /\ ~answer

funcEvents(names) == [i \in 1..Len(names) |-> Ev("Func", names[i])]

EnableCluster(a) ==
    LET e1 == <<Ev("call", "meta")>>
        e2 == e1 \o <<Ev("call", "sshTaskBuilder")>>
        step == IF a.isEnable THEN "EnableCluster" ELSE "DisableCluster"
    IN IF metaFatal(a.meta) THEN Returned(e1, a.meta)
       ELSE IF a.builderErr THEN Returned(e2, ErrBuilder)
       ELSE BuildAndExecute(e2 \o funcEvents(<<step>>),
                            a.pre \o <<step>>, a.failAt)

StartClusterFnFirst(a) ==
    LET e1 == <<Ev("call", "ScaleOutLockedErr")>>
        e2 == e1 \o <<Ev("call", "meta")>>
        e3 == e2 \o <<Ev("call", "TLSConfig")>>
        e4 == e3 \o <<Ev("call", "sshTaskBuilder")>>
        added == a.fn \o <<"StartCluster">>
    IN IF CheckLocked(a.locked) # NoErr
       THEN Returned(e1, CheckLocked(a.locked))
       ELSE IF metaFatal(a.meta) THEN Returned(e2, a.meta)
       ELSE IF a.tlsErr THEN Returned(e3, ErrTLS)
       ELSE IF a.builderErr THEN Returned(e4, ErrBuilder)
       ELSE BuildAndExecute(e4 \o funcEvents(added), a.pre \o added, a.failAt)

StartCluster(a) ==
    LET e1 == <<Ev("call", "ScaleOutLockedErr")>>
        e2 == e1 \o <<Ev("call", "meta")>>
        e3 == e2 \o <<Ev("call", "TLSConfig")>>
        e4 == e3 \o <<Ev("call", "sshTaskBuilder")>>
        added == <<"StartCluster">> \o a.fn
    IN IF CheckLocked(a.locked) # NoErr
       THEN Returned(e1, CheckLocked(a.locked))
       ELSE IF metaFatal(a.meta) THEN Returned(e2, a.meta)
       ELSE IF a.tlsErr THEN Returned(e3, ErrTLS)
       ELSE IF a.builderErr THEN Returned(e4, ErrBuilder)
       ELSE BuildAndExecute(e4 \o funcEvents(added), a.pre \o added, a.failAt)

\* StopCluster and RestartCluster differ in the step they add
stopOrRestart(a, step) ==
    LET e1 == <<Ev("call", "ScaleOutLockedErr")>>
        e2 == e1 \o <<Ev("call", "meta")>>
        e3 == e2 \o <<Ev("call", "TLSConfig")>>
        e4 == e3 \o confirmEvents(a.skipConfirm)
        e5 == e4 \o <<Ev("call", "sshTaskBuilder")>>
    IN IF CheckLocked(a.locked) # NoErr
       THEN Returned(e1, CheckLocked(a.locked))
       ELSE IF metaFatal(a.meta) THEN Returned(e2, a.meta)
       ELSE IF a.tlsErr THEN Returned(e3, ErrTLS)
       ELSE IF declined(a.skipConfirm, a.answer) THEN Returned(e4, ErrAbort)
       ELSE IF a.builderErr THEN Returned(e5, ErrBuilder)
       ELSE BuildAndExecute(e5 \o funcEvents(<<step>>),
                            a.pre \o <<step>>, a.failAt)

StopCluster(a) == stopOrRestart(a, "StopCluster")

RestartCluster(a) == stopOrRestart(a, "RestartCluster")

\* the arguments of a call and the results of what it calls
CallArgs ==
    [locked : BOOLEAN, meta : MetaResults, tlsErr : BOOLEAN,
     skipConfirm : BOOLEAN, answer : BOOLEAN, builderErr : BOOLEAN,
     pre : PreSteps, fn : FnLists, failAt : 0..(MaxFnSteps + 2),
     isEnable : BOOLEAN]

NoArgs ==
    [locked |-> FALSE, meta |-> NoErr, tlsErr |-> FALSE, skipConfirm |-> FALSE,
     answer |-> FALSE, builderErr |-> FALSE, pre |-> <<>>, fn |-> <<>>,
     failAt |-> 0, isEnable |-> FALSE]

MgrInit == mcall = [op |-> "none", a |-> NoArgs, events |-> <<>>, err |-> NoErr]

Called(op, a, r) ==
    /\ mcall.op = "none"
    /\ mcall' = [op |-> op, a |-> a, events |-> r.events, err |-> r.err]
    /\ UNCHANGED <<waitVars, cleanVars, histVars>>

CallEnableCluster ==
    \E a \in CallArgs :
        /\ a.fn = <<>> /\ ~a.tlsErr /\ ~a.skipConfirm /\ ~a.answer
        /\ a.failAt <= Len(a.pre) + 1
        /\ Called("EnableCluster", a, EnableCluster(a))

CallStartCluster ==
    \E a \in CallArgs :
        /\ ~a.isEnable /\ ~a.skipConfirm /\ ~a.answer
        /\ a.failAt <= Len(a.pre) + 1 + Len(a.fn)
        /\ Called("StartCluster", a, StartCluster(a))

CallStopCluster ==
    \E a \in CallArgs :
        /\ a.fn = <<>> /\ ~a.isEnable
        /\ a.failAt <= Len(a.pre) + 1
        /\ Called("StopCluster", a, StopCluster(a))

CallRestartCluster ==
    \E a \in CallArgs :
        /\ a.fn = <<>> /\ ~a.isEnable
        /\ a.failAt <= Len(a.pre) + 1
        /\ Called("RestartCluster", a, RestartCluster(a))

\* ------------------------------------------------------------------------
\* manager: the cleanup path calculator
\* Strings are sequences of tokens: "/", "," and names without either.
\* ------------------------------------------------------------------------
ComponentNodeExporter == "node_exporter"
ComponentBlackboxExporter == "blackbox_exporter"
TLSCertKeyDir == <<"tls">>
User == "tidb"

\* strings.Split(s, sep)
RECURSIVE Split(_, _)
Split(s, sep) ==
    IF \E i \in 1..Len(s) : s[i] = sep
    THEN LET i == CHOOSE k \in 1..Len(s) :
                     s[k] = sep /\ \A j \in 1..(k - 1) : s[j] # sep
         IN <<SubSeq(s, 1, i - 1)>> \o Split(SubSeq(s, i + 1, Len(s)), sep)
    ELSE <<s>>

\* repeated "/" become one
RECURSIVE Squeeze(_)
Squeeze(p) ==
    IF Len(p) < 2 THEN p
    ELSE IF p[1] = "/" /\ p[2] = "/" THEN Squeeze(Tail(p))
    ELSE <<p[1]>> \o Squeeze(Tail(p))

\* path.Clean, for paths without "." and ".." elements
Clean(p) ==
    LET q == Squeeze(p)
    IN IF q = <<>> THEN <<".">>
       ELSE IF Len(q) > 1 /\ q[Len(q)] = "/" THEN SubSeq(q, 1, Len(q) - 1)
       ELSE q

\* path.Join(a, b), filepath.Join(a, b): empty elements are ignored
PathJoin(a, b) ==
    IF a = <<>> /\ b = <<>> THEN <<>>
    ELSE IF a = <<>> THEN Clean(b)
    ELSE IF b = <<>> THEN Clean(a)
    ELSE Clean(a \o <<"/">> \o b)

\* strings.HasPrefix(p, "/")
HasSlashPrefix(p) == Len(p) > 0 /\ p[1] = "/"

\* spec.Abs(user, path): a relative path is taken under the user's home
Abs(user, p) ==
    IF HasSlashPrefix(p) THEN Clean(p)
    ELSE Clean(<<"/", "home", "/", user, "/">> \o p)

Hosts == {"h1", "h2"}

\* the instances topologies are made of
InstancePool == {
    [comp |-> "tikv", id |-> "h1:20160", host |-> "h1",
     data |-> <<"/", "d1", ",", "/", "d2">>, log |-> <<"/", "l1">>,
     deploy |-> <<"/", "dep1">>, ignore |-> FALSE],
    [comp |-> "pd", id |-> "h1:2379", host |-> "h1",
     data |-> <<"/", "d1", "/">>, log |-> <<"/", "l1">>,
     deploy |-> <<"dep2">>, ignore |-> FALSE],
    [comp |-> "tikv", id |-> "h2:20160", host |-> "h2",
     data |-> <<"/", "d1">>, log |-> <<"/", "l1", ",", "/", "l2">>,
     deploy |-> <<"/", "dep1">>, ignore |-> TRUE],
    [comp |-> "node_exporter", id |-> "h2:9100", host |-> "h2",
     data |-> <<>>, log |-> <<"/", "l3">>,
     deploy |-> <<"/", "dep3">>, ignore |-> TRUE],
    [comp |-> "node_exporter", id |-> "h1:9100", host |-> "h1",
     data |-> <<>>, log |-> <<>>,
     deploy |-> <<"/", "dep3">>, ignore |-> FALSE] }

\* topo.BaseTopo().MonitoredOptions; set = FALSE is the nil pointer
MonitoredChoices == {
    [set |-> FALSE, DeployDir |-> <<>>, DataDir |-> <<>>, LogDir |-> <<>>],
    [set |-> TRUE, DeployDir |-> <<"mdep">>, DataDir |-> <<"data">>,
     LogDir |-> <<"/", "ml">>],
    [set |-> TRUE, DeployDir |-> <<"/", "mdep">>, DataDir |-> <<>>,
     LogDir |-> <<"log">>] }

RoleLists == SUBSET {"tikv", "pd"}
NodeLists == SUBSET {"h1", "h2:20160", "h1:2379"}

\* the instances in the order the topology iterates them
InstanceOrders ==
    {o \in UNION {[1..n -> InstancePool] : n \in 0..MaxInstances} :
        \A i, j \in 1..Len(o) : i # j => o[i] # o[j]}

EmptyMap == [h \in {} |-> {}]

joinHostFirstOnly(m, h, paths) ==
    IF h \in DOMAIN m THEN m ELSE m @@ (h :> paths)

\* if c.delFileMap[h] == nil { ... = set.NewStringSet() }
\* c.delFileMap[h].Join(logPaths).Join(dataPaths).Join(tlsPath)
joinHost(m, h, paths) ==
    IF h \in DOMAIN m THEN [m EXCEPT ![h] = @ \cup paths]
    ELSE m @@ (h :> paths)

instRetainedNoHost(c, ins) ==
    ins.comp \in c.retainDataRoles \/ ins.id \in c.retainDataNodes

\* dataRetained of instanceCleanupFiles
instRetained(c, ins) ==
    \/ ins.comp \in c.retainDataRoles
    \/ ins.id \in c.retainDataNodes
    \/ ins.host \in c.retainDataNodes

\* the switch on ins.ComponentName(): an exporter without monitor agent
exporterIgnored(ins) ==
    /\ ins.comp \in {ComponentNodeExporter, ComponentBlackboxExporter}
    /\ ins.ignore

instDataPaths(c, ins) ==
    IF c.cleanupData /\ Len(ins.data) > 0
    THEN {PathJoin(Split(ins.data, ",")[i], <<"*">>) :
            i \in 1..Len(Split(ins.data, ","))}
    ELSE {}

instLogPaths(c, ins) ==
    IF c.cleanupLog /\ Len(ins.log) > 0
    THEN {PathJoin(Split(ins.log, ",")[i], <<"*.log">>) :
            i \in 1..Len(Split(ins.log, ","))}
    ELSE {}

tlsWantedAlways(c) == c.cleanupTLS

\* c.cleanupTLS && !topo.BaseTopo().GlobalOptions.TLSEnabled
tlsWanted(c) == c.cleanupTLS /\ ~c.TLSEnabled

instTLSPath(c, ins) ==
    IF tlsWanted(c) THEN {PathJoin(Abs(User, ins.deploy), TLSCertKeyDir)}
    ELSE {}

\* instanceCleanupFiles over the instances still to visit, m = c.delFileMap
RECURSIVE instanceCleanupFiles(_, _, _)
instanceCleanupFiles(c, order, m) ==
    IF order = <<>> THEN m
    ELSE LET ins == Head(order)
         IN IF exporterIgnored(ins) \/ instRetained(c, ins)
            THEN instanceCleanupFiles(c, Tail(order), m)
            ELSE instanceCleanupFiles(c, Tail(order),
                    joinHost(m, ins.host,
                        instLogPaths(c, ins) \cup instDataPaths(c, ins)
                            \cup instTLSPath(c, ins)))

\* getMonitorHosts: the keys of uniqueHosts, and noAgentHosts
uniqueHosts(order) == {order[i].host : i \in 1..Len(order)}

noAgentHosts(order) ==
    {order[i].host : i \in {k \in 1..Len(order) : order[k].ignore}}

monitorRetainedNever(c, order, host) == host \in noAgentHosts(order)

monitorRetainedByRole(c, order, host) ==
    \/ host \in noAgentHosts(order)
    \/ host \in c.retainDataNodes
    \/ \E i \in 1..Len(order) :
          order[i].host = host /\ order[i].comp \in c.retainDataRoles

\* dataRetained of monitorCleanupFiles
monitorRetained(c, order, host) ==
    host \in noAgentHosts(order) \/ host \in c.retainDataNodes

monitorPaths(c) ==
    LET mo == c.monitored
        deployDir == Abs(User, mo.DeployDir)
        dataDir == IF ~HasSlashPrefix(mo.DataDir)
                   THEN PathJoin(deployDir, mo.DataDir) ELSE mo.DataDir
        logDir == Abs(User, mo.LogDir)
    IN (IF c.cleanupData /\ Len(mo.DataDir) > 0
        THEN {PathJoin(dataDir, <<"*">>)} ELSE {})
       \cup (IF c.cleanupLog /\ Len(logDir) > 0
             THEN {PathJoin(logDir, <<"*.log">>)} ELSE {})
       \cup (IF tlsWanted(c) THEN {PathJoin(deployDir, TLSCertKeyDir)} ELSE {})

\* the loop of monitorCleanupFiles over the hosts still to visit
RECURSIVE monitorLoop(_, _, _, _)
monitorLoop(c, order, hosts, m) ==
    IF hosts = <<>> THEN m
    ELSE IF monitorRetained(c, order, Head(hosts))
         THEN monitorLoop(c, order, Tail(hosts), m)
         ELSE monitorLoop(c, order, Tail(hosts),
                          joinHost(m, Head(hosts), monitorPaths(c)))

\* monitorCleanupFiles, the hosts of uniqueHosts ranged over in order hosts
monitorCleanupFiles(c, order, hosts, m) ==
    IF ~c.monitored.set THEN m
    ELSE monitorLoop(c, order, hosts, m)

\* the orders in which a range over the set S may visit it
Perms(S) ==
    {o \in [1..Cardinality(S) -> S] :
        \A i, j \in 1..Cardinality(S) : i # j => o[i] # o[j]}

\* getCleanupFiles(topo, cleanupData, cleanupLog, cleanupTLS, roles, nodes)
getCleanupFiles(c, order, hosts) ==
    monitorCleanupFiles(c, order, hosts, instanceCleanupFiles(c, order, EmptyMap))

CleanupArgs ==
    [cleanupData : BOOLEAN, cleanupLog : BOOLEAN, cleanupTLS : BOOLEAN,
     retainDataRoles : RoleLists, retainDataNodes : NodeLists,
     TLSEnabled : BOOLEAN, monitored : MonitoredChoices]

NoCleanupArgs ==
    [cleanupData |-> FALSE, cleanupLog |-> FALSE, cleanupTLS |-> FALSE,
     retainDataRoles |-> {}, retainDataNodes |-> {}, TLSEnabled |-> FALSE,
     monitored |-> [set |-> FALSE, DeployDir |-> <<>>, DataDir |-> <<>>,
                    LogDir |-> <<>>]]

CleanInit ==
    ccall = [called |-> FALSE, c |-> NoCleanupArgs, order |-> <<>>,
             afterInstances |-> EmptyMap, delFileMap |-> EmptyMap]

CallGetCleanupFiles ==
    /\ ~ccall.called
    /\ \E c \in CleanupArgs, order \in InstanceOrders :
         \E hosts \in Perms(uniqueHosts(order)) :
            ccall' = [called |-> TRUE, c |-> c, order |-> order,
                      afterInstances |-> instanceCleanupFiles(c, order, EmptyMap),
                      delFileMap |-> getCleanupFiles(c, order, hosts)]
    /\ UNCHANGED <<waitVars, mgrVars, histVars>>

\* ------------------------------------------------------------------------
\* Command history (pkg/environment/history.go)
\* ------------------------------------------------------------------------
historyPrefix == "tiup-history-"

\* the buffer of bufio.NewReader: ReadLine returns a longer line in pieces
defaultBufSize == 4096

ErrMkdir == "mkdir failed"
ErrMarshal == "Time.MarshalJSON: year outside of range [0,9999]"
ErrOpen == "open failed"
ErrWrite == "write failed"
ErrReadDir == "readdir failed"

\* command-line words: their text and their length in bytes
ArgTiup == [s |-> <<"tiup">>, n |-> 4]
ArgList == [s |-> <<"list">>, n |-> 4]
ArgLong == [s |-> <<"--long-value">>, n |-> 4100]
HistCommands == {<<ArgTiup, ArgList>>, <<ArgLong>>}

\* the days of the dates given to HistoryRecord
HistDates == {
    [y |-> 2022, m |-> 2, d |-> 10],
    [y |-> 2022, m |-> 11, d |-> 9],
    [y |-> 999, m |-> 12, d |-> 31],
    [y |-> 10000, m |-> 1, d |-> 1] }
HistCodes == {0, 1}
Envs == {"nil", "env"}

\* what the file system does to a HistoryRecord call: nothing wrong,
\* MkdirAll fails, OpenFile fails, Write fails having written nothing or
\* having written a part of the bytes
WriteOutcomes == {"ok", "mkdir", "open", "write0", "writePart"}

\* strings.Join(command, " ")
RECURSIVE stringsJoin(_)
stringsJoin(command) ==
    IF command = <<>> THEN [s |-> <<>>, n |-> 0]
    ELSE IF Len(command) = 1 THEN Head(command)
    ELSE LET rest == stringsJoin(Tail(command))
         IN [s |-> Head(command).s \o <<" ">> \o rest.s,
             n |-> Head(command).n + 1 + rest.n]

\* h := &historyRow{Command, Date, Code}
historyRow(command, date, code) ==
    [Command |-> stringsJoin(command), Date |-> date, Code |-> code]

NoRow == [Command |-> [s |-> <<>>, n |-> 0],
          Date |-> [y |-> 0, m |-> 0, d |-> 0], Code |-> 0]

\* n in decimal, zero-padded to width digits
RECURSIVE Pad(_, _)
Pad(n, width) ==
    IF Len(Itoa(n)) >= width THEN Itoa(n)
    ELSE <<"0">> \o Pad(n, width - 1)

\* two decimal digits, as in "01" and "02" of the layout
Pad2(n) == Pad(n, 2)

\* h.Date.Format("2006-01-02")
Format(date) ==
    Pad(date.y, 4) \o <<"-">> \o Pad2(date.m) \o <<"-">> \o Pad2(date.d)

\* fmt.Sprintf("%s%s", historyPrefix, ...), the file's name in the directory
historyFile(date) == <<historyPrefix>> \o Format(date)

\* strings.TrimPrefix(fi.Name(), historyPrefix)
TrimPrefix(name) ==
    IF name # <<>> /\ name[1] = historyPrefix THEN Tail(name) ELSE name

\* json.Marshal(h) fails when time.Time cannot be rendered
MarshalOK(h) == h.Date.y \in 0..9999

\* len(hBytes): {"command":"...","time":"2022-02-10T00:00:00Z","code":0}
MarshalLen(h) == 53 + h.Command.n

\* what a Write puts in a file: the line of a row with its "\n", or the
\* first bytes of one
LineOf(h) == [kind |-> "line", h |-> h, n |-> MarshalLen(h)]
PartOfLine == [kind |-> "part", h |-> NoRow, n |-> 0]

\* the content of file name, <<>> where O_CREATE makes it
Content(files, name) == IF name \in DOMAIN files THEN files[name] ELSE <<>>

PutFile(files, name, content) ==
    IF name \in DOMAIN files THEN [files EXCEPT ![name] = content]
    ELSE files @@ (name :> content)

saveTruncate(files, h, io) ==
    IF ~MarshalOK(h) THEN [files |-> files, err |-> ErrMarshal]
    ELSE IF io = "open" THEN [files |-> files, err |-> ErrOpen]
    ELSE IF io = "write0"
         THEN [files |-> PutFile(files, historyFile(h.Date), <<>>), err |-> ErrWrite]
    ELSE IF io = "writePart"
         THEN [files |-> PutFile(files, historyFile(h.Date), <<PartOfLine>>),
               err |-> ErrWrite]
    ELSE [files |-> PutFile(files, historyFile(h.Date), <<LineOf(h)>>),
          err |-> NoErr]

\* historyRow.save: the files after it, and what it returns
save(files, h, io) ==
    IF ~MarshalOK(h) THEN [files |-> files, err |-> ErrMarshal]
    ELSE LET name == historyFile(h.Date)
             old == Content(files, name)
         IN IF io = "open" THEN [files |-> files, err |-> ErrOpen]
            ELSE IF io = "write0"
                 THEN [files |-> PutFile(files, name, old), err |-> ErrWrite]
            ELSE IF io = "writePart"
                 THEN [files |-> PutFile(files, name, Append(old, PartOfLine)),
                       err |-> ErrWrite]
            ELSE [files |-> PutFile(files, name, Append(old, LineOf(h))),
                  err |-> NoErr]

\* HistoryRecord(env, command, date, code): the directory and the files
\* after it, and what it returns
HistoryRecord(dir, files, env, command, date, code, io) ==
    IF env = "nil" THEN [dir |-> dir, files |-> files, err |-> NoErr]
    ELSE IF ~dir /\ io = "mkdir"
         THEN [dir |-> dir, files |-> files, err |-> ErrMkdir]
    ELSE LET r == save(files, historyRow(command, date, code), io)
         IN [dir |-> TRUE, files |-> r.files, err |-> r.err]

\* hfileList[i].time > hfileList[j].time on strings of digits and "-"
Ord(ch) == CHOOSE i \in 1..11 : (<<"-">> \o Digits)[i] = ch

RECURSIVE StrGreater(_, _)
StrGreater(a, b) ==
    IF a = <<>> THEN FALSE
    ELSE IF b = <<>> THEN TRUE
    ELSE IF Head(a) # Head(b) THEN Ord(Head(a)) > Ord(Head(b))
    ELSE StrGreater(Tail(a), Tail(b))

\* getHistoryFileList on an existing directory: newest first
getHistoryFileList(files) ==
    LET items == {[path |-> nm, time |-> TrimPrefix(nm)] : nm \in DOMAIN files}
    IN CHOOSE l \in Perms(items) :
          \A i, j \in 1..Len(l) : i < j => StrGreater(l[i].time, l[j].time)

\* getHistoryRows: the lines json.Unmarshal accepts, pending when bytes
\* without "\n" precede the next line
RECURSIVE readRows(_, _)
readRows(content, pending) ==
    IF content = <<>> THEN <<>>
    ELSE LET ch == Head(content)
         IN IF ch.kind = "part" THEN readRows(Tail(content), TRUE)
            ELSE IF pending \/ ch.n > defaultBufSize
                 THEN readRows(Tail(content), FALSE)
            ELSE <<ch.h>> \o readRows(Tail(content), FALSE)

getHistoryRows(content) == readRows(content, FALSE)

\* the loop of GetHistory from the k-th file of fList on; os.Open fails on
\* the failAt-th file (0: on none)
RECURSIVE historyLoop(_, _, _, _, _, _)
historyLoop(files, fList, k, rows, count, failAt) ==
    IF k > Len(fList) THEN [rows |-> rows, err |-> NoErr]
    ELSE IF k = failAt THEN [rows |-> rows, err |-> ErrOpen]
    ELSE LET rs == getHistoryRows(files[fList[k].path])
         IN IF Len(rows) + Len(rs) > count
            THEN LET i == Len(rows) + Len(rs) - count
                 IN [rows |-> SubSeq(rs, i + 1, Len(rs)) \o rows, err |-> NoErr]
            ELSE historyLoop(files, fList, k + 1, rs \o rows, count, failAt)

\* env.GetHistory(count); failAt = -1: os.ReadDir fails
GetHistory(dir, files, count, failAt) ==
    IF ~dir \/ failAt = -1 THEN [rows |-> <<>>, err |-> ErrReadDir]
    ELSE historyLoop(files, getHistoryFileList(files), 1, <<>>, count, failAt)

NoFiles == [nm \in {} |-> <<>>]

HistInit ==
    /\ hist = [dir |-> FALSE, files |-> NoFiles, rec |-> NoFiles, calls |-> 0,
               last |-> [env |-> "nil", h |-> NoRow, err |-> NoErr]]
    /\ hget = [called |-> FALSE, count |-> 0, rows |-> <<>>, err |-> NoErr]

\* a call of HistoryRecord; rec keeps, day by day, the rows of the calls
\* that returned nil
CallHistoryRecord ==
    /\ hist.calls < MaxRecords
    /\ ~hget.called
    /\ \E env \in Envs, command \in HistCommands, date \in HistDates,
          code \in HistCodes, io \in WriteOutcomes :
         LET r == HistoryRecord(hist.dir, hist.files, env, command, date, code, io)
             h == historyRow(command, date, code)
         IN hist' = [dir |-> r.dir, files |-> r.files,
                     rec |-> IF env # "nil" /\ r.err = NoErr
                             THEN PutFile(hist.rec, date,
                                          Append(Content(hist.rec, date), h))
                             ELSE hist.rec,
                     calls |-> hist.calls + 1,
                     last |-> [env |-> env, h |-> h, err |-> r.err]]
    /\ UNCHANGED <<hget, waitVars, mgrVars, cleanVars>>

\* a call of GetHistory
CallGetHistory ==
    /\ ~hget.called
    /\ \E count \in 0..MaxCount :
         \E failAt \in -1..Cardinality(DOMAIN hist.files) :
            LET r == GetHistory(hist.dir, hist.files, count, failAt)
            IN hget' = [called |-> TRUE, count |-> count, rows |-> r.rows,
                        err |-> r.err]
    /\ UNCHANGED <<hist, waitVars, mgrVars, cleanVars>>

\* ------------------------------------------------------------------------
\* Specifications
\* ------------------------------------------------------------------------
Init == WaitInit /\ MgrInit /\ CleanInit /\ HistInit

WaitNext == New \/ ExecuteWait \/ ExecuteNoWait \/ Poll \/ Sleep

\* one WaitFor: constructed, executed, polled to its end
WaitSpec == Init /\ [][WaitNext]_vars

\* the same, where the goroutine running Execute keeps running: Execute is
\* sequential code, each Executor call and each sleep returns
WaitLiveSpec == Init /\ [][WaitNext]_vars /\ WF_vars(WaitNext)

ManagerNext ==
    CallEnableCluster \/ CallStartCluster \/ CallStopCluster \/ CallRestartCluster

\* one call of a lifecycle operation of the Manager, which keeps no state
\* from one call to the next
ManagerSpec == Init /\ [][ManagerNext]_vars

CleanupNext == CallGetCleanupFiles

\* one call of getCleanupFiles
CleanupSpec == Init /\ [][CleanupNext]_vars

HistoryNext == CallHistoryRecord \/ CallGetHistory

\* HistoryRecord calls of one process after another on an empty home, then
\* one GetHistory
HistorySpec == Init /\ [][HistoryNext]_vars

Next == WaitNext \/ ManagerNext \/ CleanupNext \/ HistoryNext

Spec == Init /\ [][Next]_vars

\* ------------------------------------------------------------------------
\* Vocabulary of the properties
\* ------------------------------------------------------------------------
Polled == lastCmd # <<>>
Succeeded == wpc = "done" /\ ret = NilRet
Failed == wpc = "done" /\ ret # NilRet
Listen == <<"L", "I", "S", "T", "E", "N">>

\* the position of event e in ev, 0 when it is not there
Pos(ev, e) ==
    IF \E i \in 1..Len(ev) : ev[i] = e
    THEN CHOOSE i \in 1..Len(ev) : ev[i] = e /\ \A j \in 1..(i - 1) : ev[j] # e
    ELSE 0

LockCheck == Ev("call", "ScaleOutLockedErr")
MetaLoad == Ev("call", "meta")
Prompt == Ev("call", "PromptForConfirmOrAbortError")
Builder == Ev("call", "sshTaskBuilder")

\* the call built a pipeline or ran a step of one
PipelineTouched ==
    \E i \in 1..Len(mcall.events) :
        \/ mcall.events[i] \in {Builder, Ev("call", "Build"), Ev("call", "Execute")}
        \/ mcall.events[i][1] \in {"Func", "run"}

\* what operation op does when called with a
Handler(op, a) ==
    CASE op = "EnableCluster" -> EnableCluster(a)
      [] op = "StartCluster" -> StartCluster(a)
      [] op = "StopCluster" -> StopCluster(a)
      [] op = "RestartCluster" -> RestartCluster(a)

\* ------------------------------------------------------------------------
\* C1. On linux with State "started", after each poll: Execute has returned
\* success exactly when the Executor call succeeded and its output holds
\* ":<port> " -- success at the first such poll and at no poll before it.
\* ------------------------------------------------------------------------
C1_StartedLinuxSucceedsOnlyOnMatch ==
    (w.OS = Linux /\ w.State = "started" /\ Polled) =>
        /\ Succeeded => Contains(lastOut, <<":">> \o Itoa(w.Port) \o <<" ">>)
        /\ (lastErr = NoErr /\ Contains(lastOut, <<":">> \o Itoa(w.Port) \o <<" ">>))
              => Succeeded

\* ------------------------------------------------------------------------
\* C2. On linux or darwin, for State started or stopped: when Execute has
\* returned and no poll met the desired condition, it returned the timeout
\* error, no later than Timeout plus one Sleep after the wait began.
\* ------------------------------------------------------------------------
C2_NeverSatisfiedTimesOut ==
    (/\ wpc = "done"
     /\ w.OS \in {Linux, MacOS}
     /\ w.State \in {"started", "stopped"}
     /\ ~everDesired) =>
        /\ ret # NilRet
        /\ ret.msg = TimedOutMsg
        /\ elapsed <= w.Timeout + w.Sleep

\* ------------------------------------------------------------------------
\* C3. A poll whose Executor call returns an error ends the wait at that
\* poll with an error, and once the wait has ended no further command is
\* issued on the Executor.
\* ------------------------------------------------------------------------
C3_ExecutorErrorEndsWait ==
    [][/\ (wpc = "retry" /\ lastErr' # NoErr) =>
             (wpc' = "done" /\ ret' # NilRet /\ ret' # NoRet)
       /\ wpc = "done" => UNCHANGED <<wpc, lastCmd, lastOut, lastErr>>]_vars

C3_Witness ==
    /\ wpc = "done" /\ lastErr = ExecErr /\ elapsed > 0
    /\ w.OS = MacOS /\ Failed

\* ------------------------------------------------------------------------
\* C4 as stated. Every lifecycle operation checks the scale-out lock first
\* and, when the cluster is locked, returns the lock error having done
\* nothing else.
\* ------------------------------------------------------------------------
C4_EveryOperationChecksLock ==
    mcall.op # "none" =>
        /\ mcall.events[1] = LockCheck
        /\ mcall.a.locked => (mcall.err = ErrLocked /\ mcall.events = <<LockCheck>>)

\* ------------------------------------------------------------------------
\* C4 amended. StartCluster, StopCluster and RestartCluster check the
\* scale-out lock before they load the metadata, prompt, build or execute
\* and, when the cluster is locked, return the lock error having done
\* nothing else. EnableCluster does not check the lock.
\* ------------------------------------------------------------------------
C4_StartStopRestartCheckLock ==
    /\ mcall.op \in {"StartCluster", "StopCluster", "RestartCluster"} =>
          /\ mcall.events[1] = LockCheck
          /\ mcall.a.locked =>
                (mcall.err = ErrLocked /\ mcall.events = <<LockCheck>>)
    /\ mcall.op = "EnableCluster" =>
          (Pos(mcall.events, LockCheck) = 0 /\ mcall.err # ErrLocked)

C4_Witness ==
    /\ mcall.op = "RestartCluster" /\ mcall.a.locked /\ mcall.a.skipConfirm
    /\ mcall.err = ErrLocked

\* ------------------------------------------------------------------------
\* C5 as stated. When the metadata load returns a validation error, the
\* operation returns an error and neither builds nor executes a pipeline.
\* ------------------------------------------------------------------------
C5_ValidationErrorIsFatal ==
    (mcall.op # "none" /\ Pos(mcall.events, MetaLoad) > 0
        /\ mcall.a.meta = ErrValidate) =>
        (mcall.err # NoErr /\ ~PipelineTouched)

\* ------------------------------------------------------------------------
\* C5 amended. A validation error of the metadata load is not fatal: the
\* operation does exactly what it does when the load succeeds. Any other
\* error of the load is fatal: the operation returns that error and neither
\* builds nor executes a pipeline.
\* ------------------------------------------------------------------------
C5_OnlyOtherMetaErrorsFatal ==
    (mcall.op # "none" /\ Pos(mcall.events, MetaLoad) > 0) =>
        /\ mcall.a.meta = ErrMeta =>
              /\ mcall.err = ErrMeta
              /\ ~PipelineTouched
              /\ mcall.events[Len(mcall.events)] = MetaLoad
        /\ mcall.a.meta = ErrValidate =>
              LET ok == Handler(mcall.op, [mcall.a EXCEPT !.meta = NoErr])
              IN mcall.events = ok.events /\ mcall.err = ok.err

C5_Witness ==
    /\ mcall.op = "StopCluster" /\ mcall.a.meta = ErrValidate
    /\ mcall.err = NoErr
    /\ Pos(mcall.events, Ev("run", "StopCluster")) > 0

\* ------------------------------------------------------------------------
\* C6. In StopCluster and RestartCluster: with skipConfirm no confirmation
\* is requested; without it a pipeline is constructed only after the
\* confirmation was requested; a declined confirmation returns the abort
\* error and nothing is built or executed.
\* ------------------------------------------------------------------------
C6_ConfirmBeforePipeline ==
    mcall.op \in {"StopCluster", "RestartCluster"} =>
        /\ mcall.a.skipConfirm => Pos(mcall.events, Prompt) = 0
        /\ (~mcall.a.skipConfirm /\ PipelineTouched) =>
              /\ Pos(mcall.events, Prompt) > 0
              /\ Pos(mcall.events, Prompt) < Pos(mcall.events, Builder)
              /\ Pos(mcall.events, Builder) > 0
        /\ (Pos(mcall.events, Prompt) > 0 /\ ~mcall.a.answer) =>
              /\ mcall.err = ErrAbort
              /\ ~PipelineTouched

C6_Witness ==
    /\ mcall.op = "RestartCluster" /\ ~mcall.a.skipConfirm /\ ~mcall.a.answer
    /\ Pos(mcall.events, Prompt) > 0 /\ mcall.err = ErrAbort

\* ------------------------------------------------------------------------
\* C7. On linux with State "stopped", after each poll: Execute has returned
\* success exactly when the Executor call succeeded and its output does not
\* hold ":<port> ".
\* ------------------------------------------------------------------------
C7_StoppedLinuxSucceedsOnAbsence ==
    (w.OS = Linux /\ w.State = "stopped" /\ Polled) =>
        (Succeeded <=>
            (lastErr = NoErr
             /\ ~Contains(lastOut, <<":">> \o Itoa(w.Port) \o <<" ">>)))

C7_Witness ==
    /\ w.OS = Linux /\ w.State = "stopped" /\ Succeeded /\ elapsed > 0
    /\ w.Port = 8 /\ lastOut = <<"*", ":", "8", "0", " ">>

\* ------------------------------------------------------------------------
\* C8. On darwin, after each poll: the command was lsof for "started" and
\* the service list for "stopped", and Execute has returned success exactly
\* when the Executor call succeeded and the output holds the marker, "LISTEN"
\* for "started" and "-" for "stopped".
\* ------------------------------------------------------------------------
C8_DarwinSucceedsIffMarker ==
    (w.OS = MacOS /\ w.State \in {"started", "stopped"} /\ Polled) =>
        /\ lastCmd = IF w.State = "started"
                     THEN <<"lsof -i:", Itoa(w.Port)>>
                     ELSE <<"launchctl list | grep pingcap | grep ", Itoa(w.Port)>>
        /\ Succeeded <=>
              (lastErr = NoErr
               /\ Contains(lastOut, IF w.State = "started" THEN Listen ELSE <<"-">>))

C8_Witness ==
    /\ w.OS = MacOS /\ w.State = "started" /\ Succeeded /\ elapsed > 0
    /\ lastOut = Listen

\* ------------------------------------------------------------------------
\* C9. Every Execute that is called returns, with success or with an error,
\* and once it has returned nothing of the wait changes: no further poll.
\* ------------------------------------------------------------------------
C9_ExecuteTerminates ==
    /\ (wpc \in {"ready", "retry", "sleep"}) ~> (Succeeded \/ Failed)
    /\ [][wpc = "done" => UNCHANGED waitVars]_vars

C9_Witness ==
    /\ wpc = "done" /\ retryErr = RetryTimeout /\ Failed
    /\ elapsed > w.Timeout

\* ------------------------------------------------------------------------
\* C10. When Execute has returned and the wait had failed, whatever its
\* error, the value returned is the message with the port, the desired state
\* and the timeout of the WaitFor, and never the error of the wait.
\* ------------------------------------------------------------------------
C10_FailureIsTimedOutMessage ==
    (wpc = "done" /\ (retryErr # NoErr \/ ret # NilRet)) =>
        /\ ret = [msg |-> TimedOutMsg, port |-> w.Port, state |-> w.State,
                  timeout |-> w.Timeout]
        /\ ret.msg \notin {ExecErr, RetryTimeout, StillWaiting}

C10_Witness ==
    /\ wpc = "done" /\ retryErr = ExecErr /\ ret.msg = TimedOutMsg
    /\ ret.port = 80

\* ------------------------------------------------------------------------
\* C11. In every lifecycle operation the pipeline is executed at most once
\* and no step runs twice; when its execution fails the operation returns an
\* error; the operation returns nil only when the pipeline was executed and
\* its execution returned nil.
\* ------------------------------------------------------------------------
C11_PipelineExecutedOnce ==
    mcall.op # "none" =>
        LET ev == mcall.events
            executes == {i \in 1..Len(ev) : ev[i] = Ev("call", "Execute")}
            runs == {i \in 1..Len(ev) : ev[i][1] = "run"}
            steps == mcall.a.pre \o SelectSeq(ev, LAMBDA e : e[1] = "Func")
        IN /\ Cardinality(executes) <= 1
           /\ Cardinality(runs) <= Len(steps)
           /\ (executes # {} /\ mcall.a.failAt > 0) => mcall.err # NoErr
           /\ mcall.err = NoErr => (executes # {} /\ mcall.a.failAt = 0)

C11_Witness ==
    /\ mcall.op = "StartCluster" /\ mcall.a.failAt = 2 /\ mcall.a.pre = <<"ClusterSSH">>
    /\ mcall.err = ErrStep
    /\ Pos(mcall.events, Ev("call", "Execute")) > 0

\* ------------------------------------------------------------------------
\* C17. NewWaitFor turns a zero Sleep into 1 second, a zero Timeout into 60
\* seconds and an empty State into "started", and keeps every other field as
\* given; Execute waits in steps of that Sleep and within that Timeout plus
\* one Sleep.
\* ------------------------------------------------------------------------
C17_NewWaitForDefaults ==
    wpc # "new" =>
        /\ w.Sleep = IF arg.Sleep = 0 THEN 1 ELSE arg.Sleep
        /\ w.Timeout = IF arg.Timeout = 0 THEN 60 ELSE arg.Timeout
        /\ w.State = IF arg.State = "" THEN "started" ELSE arg.State
        /\ w.Port = arg.Port
        /\ w.OS = arg.OS
        /\ elapsed % (IF arg.Sleep = 0 THEN 1 ELSE arg.Sleep) = 0
        /\ elapsed <= (IF arg.Timeout = 0 THEN 60 ELSE arg.Timeout)
                        + (IF arg.Sleep = 0 THEN 1 ELSE arg.Sleep)

C17_Witness ==
    /\ arg.Sleep = 0 /\ arg.Timeout = 0 /\ arg.State = "" /\ arg.OS = MacOS
    /\ wpc = "done" /\ elapsed = 61 /\ w.State = "started"

\* ------------------------------------------------------------------------
\* C18. In StartCluster the steps of the pipeline are the builder's own, then
\* "StartCluster", then those of the callbacks in argument order; a step of a
\* callback runs only after the "StartCluster" step has run and succeeded,
\* and none runs when it fails.
\* ------------------------------------------------------------------------
C18_CallbackStepsAfterStart ==
    (mcall.op = "StartCluster" /\ Pos(mcall.events, Ev("call", "Build")) > 0) =>
        LET ev == mcall.events
            startAt == Len(mcall.a.pre) + 1
        IN /\ SelectSeq(ev, LAMBDA e : e[1] = "Func")
                = <<Ev("Func", "StartCluster")>>
                    \o [i \in 1..Len(mcall.a.fn) |-> Ev("Func", mcall.a.fn[i])]
           /\ \A i \in 1..Len(ev) :
                 (ev[i][1] = "run" /\ ev[i][2] \in FnNames) =>
                    /\ \E j \in 1..(i - 1) : ev[j] = Ev("run", "StartCluster")
                    /\ mcall.a.failAt # startAt
           /\ LET ran == SelectSeq(ev, LAMBDA e : e[1] = "run" /\ e[2] \in FnNames)
              IN /\ Len(ran) <= Len(mcall.a.fn)
                 /\ \A i \in 1..Len(ran) : ran[i] = Ev("run", mcall.a.fn[i])
           /\ mcall.a.failAt = startAt =>
                 ~\E i \in 1..Len(ev) : ev[i][1] = "run" /\ ev[i][2] \in FnNames

C18_Witness ==
    /\ mcall.op = "StartCluster" /\ mcall.a.fn = <<"f2", "f1">>
    /\ mcall.a.pre = <<"ClusterSSH">> /\ mcall.err = NoErr
    /\ Pos(mcall.events, Ev("run", "f1")) > Pos(mcall.events, Ev("run", "f2"))

\* ------------------------------------------------------------------------
\* C19. Execute returns success only after at least one detection command
\* has run on the Executor, whatever the configured OS.
\* ------------------------------------------------------------------------
C19_SuccessOnlyAfterPolling ==
    Succeeded => Polled

\* ------------------------------------------------------------------------
\* C20. Execute returns success after a poll only when the configured State
\* is "started" or "stopped": with any other State a poll whose Executor
\* call succeeds does not end the wait with success.
\* ------------------------------------------------------------------------
C20_UndefinedStateNeverSucceeds ==
    (Polled /\ w.State \notin {"started", "stopped"}) => ~Succeeded

\* ------------------------------------------------------------------------
\* Vocabulary of the cleanup properties
\* ------------------------------------------------------------------------
\* the instance is retained: by its role, its ID or its host
Retained(c, ins) ==
    \/ ins.comp \in c.retainDataRoles
    \/ ins.id \in c.retainDataNodes
    \/ ins.host \in c.retainDataNodes

Instances == {ccall.order[i] : i \in 1..Len(ccall.order)}

\* the set of host h in map m, empty when m has no entry for h
At(m, h) == IF h \in DOMAIN m THEN m[h] ELSE {}

LastToken(p) == p[Len(p)]

\* ------------------------------------------------------------------------
\* C12. getCleanupFiles returns the same map whatever the order in which the
\* instances and the hosts are iterated, and the set of a host is the union
\* of what the instances on it and the monitoring agent give: a glob two
\* instances share is in it once.
\* ------------------------------------------------------------------------
C12_OrderIndependentSets ==
    ccall.called =>
        /\ \A o \in Perms(Instances) :
              \A hs \in Perms(uniqueHosts(ccall.order)) :
                 getCleanupFiles(ccall.c, o, hs) = ccall.delFileMap
        /\ \A h \in DOMAIN ccall.delFileMap :
              ccall.delFileMap[h] \subseteq
                 monitorPaths(ccall.c) \cup
                 UNION {instLogPaths(ccall.c, ins) \cup instDataPaths(ccall.c, ins)
                           \cup instTLSPath(ccall.c, ins) :
                        ins \in {x \in Instances : x.host = h}}
        /\ \A ins \in Instances :
              (~exporterIgnored(ins) /\ ~Retained(ccall.c, ins)) =>
                 (instLogPaths(ccall.c, ins) \cup instDataPaths(ccall.c, ins))
                    \subseteq At(ccall.delFileMap, ins.host)

C12_Witness ==
    /\ ccall.called /\ Len(ccall.order) = 2
    /\ ccall.order[1].id = "h1:2379" /\ ccall.order[2].id = "h1:20160"
    /\ ccall.c.cleanupData /\ ccall.c.cleanupLog /\ ~ccall.c.cleanupTLS
    /\ ccall.c.retainDataRoles = {} /\ ccall.c.retainDataNodes = {}
    /\ ~ccall.c.monitored.set
    /\ ccall.delFileMap["h1"] =
          {<<"/", "d1", "/", "*">>, <<"/", "d2", "/", "*">>,
           <<"/", "l1", "/", "*.log">>}

\* ------------------------------------------------------------------------
\* C13. A retained instance (by role, by ID or by host) contributes no path:
\* the pass over the instances gives what it gives without the retained
\* instances, and every path of the result is one of a non-retained instance
\* on that host or one of the monitoring agent.
\* ------------------------------------------------------------------------
C13_RetainedInstanceContributesNothing ==
    ccall.called =>
        /\ ccall.afterInstances =
              instanceCleanupFiles(ccall.c,
                  SelectSeq(ccall.order, LAMBDA x : ~Retained(ccall.c, x)),
                  EmptyMap)
        /\ \A h \in DOMAIN ccall.delFileMap :
              ccall.delFileMap[h] \subseteq
                 monitorPaths(ccall.c) \cup
                 UNION {instLogPaths(ccall.c, ins) \cup instDataPaths(ccall.c, ins)
                           \cup instTLSPath(ccall.c, ins) :
                        ins \in {x \in Instances :
                                    x.host = h /\ ~Retained(ccall.c, x)}}
        /\ \A h \in Hosts :
              (\A x \in Instances : x.host = h => Retained(ccall.c, x))
                 => h \notin DOMAIN ccall.afterInstances

C13_Witness ==
    /\ ccall.called /\ Len(ccall.order) = 2
    /\ ccall.order[1].id = "h1:20160" /\ ccall.order[2].id = "h2:20160"
    /\ ccall.c.retainDataRoles = {} /\ ccall.c.retainDataNodes = {"h2:20160"}
    /\ ccall.c.cleanupData /\ ccall.c.cleanupLog /\ ccall.c.cleanupTLS
    /\ ~ccall.c.TLSEnabled /\ ~ccall.c.monitored.set
    /\ DOMAIN ccall.delFileMap = {"h1"}
    /\ ccall.delFileMap["h1"] # {}

\* ------------------------------------------------------------------------
\* C14. A host whose address is in the retained-node list has no path in
\* the result, from its instances or from the monitoring agent.
\* ------------------------------------------------------------------------
C14_RetainedHostHasNoPath ==
    ccall.called =>
        \A h \in Hosts \cap ccall.c.retainDataNodes :
            At(ccall.delFileMap, h) = {} /\ h \notin DOMAIN ccall.delFileMap

C14_Witness ==
    /\ ccall.called /\ Len(ccall.order) = 2
    /\ ccall.order[1].id = "h1:20160" /\ ccall.order[2].id = "h1:9100"
    /\ "h1" \in ccall.c.retainDataNodes
    /\ ccall.c.retainDataRoles = {}
    /\ ccall.c.cleanupData /\ ccall.c.cleanupLog /\ ccall.c.cleanupTLS
    /\ ccall.c.monitored.set
    /\ ccall.delFileMap = EmptyMap

\* ------------------------------------------------------------------------
\* C15. Every path of the result is a "<dir>/*" glob, a "<dir>/*.log" glob or
\* a TLS directory; the first appears only with cleanup-data, the second only
\* with cleanup-log, the third only with cleanup-TLS and cluster TLS off;
\* with the three flags false every set is empty.
\* ------------------------------------------------------------------------
C15_PathsOnlyForSetFlags ==
    ccall.called =>
        /\ \A h \in DOMAIN ccall.delFileMap :
              \A p \in ccall.delFileMap[h] :
                 /\ LastToken(p) \in {"*", "*.log", "tls"}
                 /\ LastToken(p) = "*" => ccall.c.cleanupData
                 /\ LastToken(p) = "*.log" => ccall.c.cleanupLog
                 /\ LastToken(p) = "tls" =>
                       (ccall.c.cleanupTLS /\ ~ccall.c.TLSEnabled)
        /\ (~ccall.c.cleanupData /\ ~ccall.c.cleanupLog /\ ~ccall.c.cleanupTLS) =>
              \A h \in DOMAIN ccall.delFileMap : ccall.delFileMap[h] = {}

C15_Witness ==
    /\ ccall.called /\ Len(ccall.order) = 1 /\ ccall.order[1].id = "h1:2379"
    /\ ccall.c.cleanupTLS /\ ccall.c.TLSEnabled
    /\ ccall.c.cleanupData /\ ~ccall.c.cleanupLog
    /\ ccall.c.monitored.set /\ ccall.c.monitored.DataDir = <<"data">>
    /\ ccall.c.retainDataRoles = {} /\ ccall.c.retainDataNodes = {}
    /\ ccall.delFileMap["h1"] =
          {<<"/", "d1", "/", "*">>,
           <<"/", "home", "/", "tidb", "/", "mdep", "/", "data", "/", "*">>}

\* ------------------------------------------------------------------------
\* C16. The monitoring-agent pass adds the agent's paths to a host exactly
\* when a monitoring deployment is configured, no instance on the host is
\* marked ignore-monitor-agent and the host is not in the retained-node
\* list; the paths are the same whether or not the instances of the host are
\* retained by role or by ID.
\* ------------------------------------------------------------------------
C16_MonitorPassPerHost ==
    ccall.called =>
        \A h \in uniqueHosts(ccall.order) :
            LET eligible ==
                    /\ ccall.c.monitored.set
                    /\ ~\E x \in Instances : x.host = h /\ x.ignore
                    /\ h \notin ccall.c.retainDataNodes
                agent == monitorPaths([ccall.c EXCEPT !.retainDataRoles = {},
                                                      !.retainDataNodes = {}])
            IN IF eligible
               THEN /\ h \in DOMAIN ccall.delFileMap
                    /\ ccall.delFileMap[h] = At(ccall.afterInstances, h) \cup agent
               ELSE /\ h \in DOMAIN ccall.delFileMap
                        <=> h \in DOMAIN ccall.afterInstances
                    /\ At(ccall.delFileMap, h) = At(ccall.afterInstances, h)

C16_Witness ==
    /\ ccall.called /\ Len(ccall.order) = 1 /\ ccall.order[1].id = "h1:20160"
    /\ ccall.c.retainDataRoles = {"tikv"} /\ ccall.c.retainDataNodes = {"h2:20160"}
    /\ ccall.c.monitored.set /\ ccall.c.monitored.LogDir = <<"log">>
    /\ ccall.c.cleanupLog /\ ~ccall.c.cleanupData /\ ~ccall.c.cleanupTLS
    /\ ccall.afterInstances = EmptyMap
    /\ ccall.delFileMap["h1"] =
          {<<"/", "home", "/", "tidb", "/", "log", "/", "*.log">>}

\* ------------------------------------------------------------------------
\* Vocabulary of the history properties
\* ------------------------------------------------------------------------
\* day a is before day b in the calendar
DayBefore(a, b) ==
    \/ a.y < b.y
    \/ a.y = b.y /\ a.m < b.m
    \/ a.y = b.y /\ a.m = b.m /\ a.d < b.d

\* the rows recorded on the days of set days, oldest day first and, within
\* a day, in the order of the calls
RECURSIVE RecordedOn(_)
RecordedOn(days) ==
    IF days = {} THEN <<>>
    ELSE LET first == CHOOSE a \in days : \A b \in days \ {a} : DayBefore(a, b)
         IN hist.rec[first] \o RecordedOn(days \ {first})

Recorded == RecordedOn(DOMAIN hist.rec)

Min(a, b) == IF a < b THEN a ELSE b

\* the last n elements of s
LastN(s, n) == SubSeq(s, Len(s) - n + 1, Len(s))

\* no Write has left bytes without their end of line
NoTornWrite ==
    \A nm \in DOMAIN hist.files :
        \A i \in 1..Len(hist.files[nm]) : hist.files[nm][i].kind = "line"

\* the step is a call of HistoryRecord
RecordStep == hist'.calls = hist.calls + 1

\* ------------------------------------------------------------------------
\* C21. After any sequence of HistoryRecord calls, GetHistory(count) with
\* count >= 0 returns min(count, number of recorded rows) rows: the most
\* recent ones, oldest first, rows being ordered by the day of their file
\* and within a day by the order in which they were appended. Stated of the
\* calls that return nil on files every Write of which was whole.
\* ------------------------------------------------------------------------
C21_GetHistoryReturnsMostRecent ==
    (hget.called /\ hget.err = NoErr /\ NoTornWrite) =>
        /\ Len(hget.rows) = Min(hget.count, Len(Recorded))
        /\ hget.rows = LastN(Recorded, Min(hget.count, Len(Recorded)))

\* files new are files old with the line of row h appended to the file
\* named after h's date, and nothing else changed
AppendedOneRow(old, new, h) ==
    LET name == historyFile(h.Date)
    IN /\ DOMAIN new = DOMAIN old \cup {name}
       /\ new[name] = Append(Content(old, name), LineOf(h))
       /\ \A nm \in DOMAIN old \ {name} : new[nm] = old[nm]

\* files new keep all that files old hold, and have no line more
NoRowAppended(old, new) ==
    /\ DOMAIN old \subseteq DOMAIN new
    /\ \A nm \in DOMAIN new :
          /\ Len(new[nm]) >= Len(Content(old, nm))
          /\ SubSeq(new[nm], 1, Len(Content(old, nm))) = Content(old, nm)
          /\ \A i \in (Len(Content(old, nm)) + 1)..Len(new[nm]) :
                new[nm][i].kind # "line"

\* ------------------------------------------------------------------------
\* C22 as stated. HistoryRecord with a non-nil environment appends exactly
\* one row to the history file named after the row's date and leaves every
\* earlier row of that file and every other history file unchanged; with a
\* nil environment it records nothing and returns nil.
\* ------------------------------------------------------------------------
C22_RecordAppendsOneRow ==
    [][RecordStep =>
         IF hist'.last.env = "nil"
         THEN /\ hist'.files = hist.files /\ hist'.dir = hist.dir
              /\ hist'.last.err = NoErr
         ELSE AppendedOneRow(hist.files, hist'.files, hist'.last.h)]_vars

\* ------------------------------------------------------------------------
\* C22 as amended. HistoryRecord with a non-nil environment that returns nil
\* has appended exactly one row to the history file named after the row's
\* date and left every earlier row of that file and every other history
\* file unchanged; when it returns an error it has appended no row and has
\* changed nothing that was in a history file; with a nil environment it
\* records nothing and returns nil.
\* ------------------------------------------------------------------------
C22_RecordAppendsOneRowOrFails ==
    [][RecordStep =>
         IF hist'.last.env = "nil"
         THEN /\ hist'.files = hist.files /\ hist'.dir = hist.dir
              /\ hist'.last.err = NoErr
         ELSE IF hist'.last.err = NoErr
         THEN AppendedOneRow(hist.files, hist'.files, hist'.last.h)
         ELSE NoRowAppended(hist.files, hist'.files)]_vars

C22_Witness ==
    /\ hist.calls = 3
    /\ hist.last.env = "env" /\ hist.last.err = NoErr
    /\ Cardinality(DOMAIN hist.files) = 2
    /\ LET content == hist.files[historyFile(hist.last.h.Date)]
       IN /\ Len(content) = 2
          /\ content[1].kind = "line" /\ content[1].h # hist.last.h
          /\ content[2] = LineOf(hist.last.h)

====
